---- MODULE Spec2Model ----
(***************************************************************************)
(* Model of the call-monitoring bot (src/main.py, src/messaging.py):       *)
(*   - the Record Extractor            get_active_calls                    *)
(*   - the Acquisition Poller          wait_size_stable,                   *)
(*                                     download_audio_via_api              *)
(*   - the Monitoring Loop             monitor_calls_with_recovery,        *)
(*                                     initialize_driver_with_login,       *)
(*                                     login_to_orangecarrier              *)
(*   - the Call Processor              process_single_call,                *)
(*                                     send_to_telegram_sync,              *)
(*                                     notify_admins_error                 *)
(*   - the Dispatch Pool               the executors of the cycles and     *)
(*                                     the lock of the Telegram client     *)
(* Strings that the code inspects character by character (recording        *)
(* tokens, attribute values) are sequences of one-character strings;       *)
(* strings the code only concatenates and compares (cell texts, ids) are   *)
(* TLA+ strings.  A missing attribute (None) and the empty string are both *)
(* falsy in every test the code makes on them and are both written <<>>.   *)
(***************************************************************************)
EXTENDS Naturals, Integers, Sequences, FiniteSets, TLC

VARIABLES
    \* ---- global state of src/main.py ----
    processed_calls,            \* main.py:61   the Dedup Ledger (set of ids)
    driver_instance,            \* main.py:62   "none" or "live"; "quit": the
                                \* handle is kept, its browser has been quit
    is_monitoring,              \* main.py:63   the monitoring flag
    connection_issue_reported,  \* main.py:65   the alert-suppression flag
    \* ---- locals of monitor_calls_with_recovery ----
    pc,                         \* position of the monitoring loop
    consecutive_errors,         \* main.py:652
    page,                       \* the rendered dashboard the driver shows
    calls,                      \* main.py:702  result of get_active_calls
    new_calls,                  \* main.py:709  records still to dispatch
    cur,                        \* main.py:716  the record being dispatched
    \* ---- observations of the monitoring loop (history) ----
    submitted,                  \* id -> number of executor.submit calls
    notified,                   \* id -> number of instant notifications
    ledger_adds,                \* id -> number of times the id entered the ledger
    prev_ids,                   \* ids surfaced-or-known on the previous snapshot
    dropped_ids,                \* ids dropped for lack of a token, not yet dispatched
    consec_ids,                 \* ids seen on two consecutive snapshots
    lost_alerts,                \* 'connection lost' alerts of this expiry episode
    expiry_episode,             \* session expiry observed, login not yet succeeded
    restored_alerts,            \* 'connection restored' events of this iteration
    issue_at_recovery,          \* flag was set when this iteration's recovery began
    recovered_by,               \* recovery path taken in this iteration
    auth_lost,                  \* 'connection lost' alerts of the authentication
                                \* that has just been exhausted, if any
    \* ---- Record Extractor run twice on one snapshot ----
    epc, calls1, calls2,
    \* ---- wait_size_stable ----
    wpc, stable_checks, max_wait, last, same, waited, wresult,
    probes, seen_sizes, fresh_only, last_obs, const_size, const_source,
    last_probe,                 \* the answer to the latest probe
    \* ---- download_audio_via_api ----
    dpc, attempt, file, dresult, downloads, dur_probes, waits, sleeps,
    durs, clean_run,
    \* ---- the Dispatch Pool and its Call Processors ----
    tasks,                      \* the invocations of process_single_call
    client_lock,                \* messaging.py:27  holder of _client_lock
    batch,                      \* batches handed to a pool so far
    \* ---- the executors of successive cycles, counted ----
    pools, partial,
    \* ---- the id of two rows ----
    ipc, triple1, triple2, id1, id2,
    \* ---- the threads that call _get_client ----
    gpc,                        \* thread -> its position
    got,                        \* thread -> the client _get_client returned
    ncalls,                     \* thread -> calls of _get_client begun
    telethon_client,            \* messaging.py:26  <<>> or <<client>>
    constructed,                \* TelegramClient objects constructed so far
    started                     \* the clients whose start() returned

vars == << processed_calls, driver_instance, is_monitoring,
           connection_issue_reported,
           pc, consecutive_errors, page, calls, new_calls, cur,
           submitted, notified, ledger_adds, prev_ids, dropped_ids, consec_ids,
           lost_alerts, expiry_episode, restored_alerts, issue_at_recovery,
           recovered_by, auth_lost,
           epc, calls1, calls2,
           wpc, stable_checks, max_wait, last, same, waited, wresult,
           probes, seen_sizes, fresh_only, last_obs, const_size, const_source,
           last_probe,
           dpc, attempt, file, dresult, downloads, dur_probes, waits, sleeps,
           durs, clean_run,
           tasks, client_lock, batch, pools, partial,
           ipc, triple1, triple2, id1, id2,
           gpc, got, ncalls, telethon_client, constructed, started >>

monvars == << pc, consecutive_errors, driver_instance,
              connection_issue_reported, calls, new_calls, cur,
              submitted, notified, ledger_adds, prev_ids, dropped_ids,
              consec_ids,
              lost_alerts, expiry_episode, restored_alerts, issue_at_recovery,
              recovered_by, auth_lost, is_monitoring >>

extvars == << epc, calls1, calls2 >>

waitvars == << wpc, stable_checks, max_wait, last, same, waited, wresult,
               probes, seen_sizes, fresh_only, last_obs, const_size,
               const_source, last_probe >>

dlvars == << dpc, attempt, file, dresult, downloads, dur_probes, waits,
             sleeps, durs, clean_run >>

poolvars == << tasks, client_lock, batch >>

ceilvars == << pools, partial >>

idvars == << ipc, triple1, triple2, id1, id2 >>

getvars == << gpc, got, ncalls, telethon_client, constructed, started >>

-----------------------------------------------------------------------------
(***************************************************************************)
(* Bounds of the model.                                                    *)
(***************************************************************************)
MaxRows == 2          \* rows of a snapshot given to the extractor alone
MaxPageRows == 2      \* rows of a snapshot seen by the monitoring loop
MaxConsecutive == 7   \* cap of consecutive_errors while the session is absent
MaxLostAlerts == 3    \* cap of the alerts counted in one expiry episode
MaxSize == 4          \* Content-Length values are 0..MaxSize
MaxChecks == 3        \* stable_checks is 1..MaxChecks
MaxWaitBound == 5     \* max_wait is 0..MaxWaitBound
MaxPools == 2         \* executors created by successive cycles
MaxPartial == 2       \* steps in which one single invocation starts or ends

\* calls of _get_client made by one thread
MaxCalls == 2

-----------------------------------------------------------------------------
(***************************************************************************)
(* Regular expressions of the Record Extractor.                            *)
(***************************************************************************)
Digits == {"0", "1", "2", "3", "4", "5", "6", "7", "8", "9"}

MinTokenDigits == 10

AllDigits(s) == \A i \in 1..Len(s) : s[i] \in Digits

\* s is  \d{n,}\.\d+  from its first to its last character
DigitsDotDigits(s, n) ==
    \E i \in 1..Len(s) :
        /\ s[i] = "."
        /\ i - 1 >= n
        /\ Len(s) - i >= 1
        /\ AllDigits(SubSeq(s, 1, i - 1))
        /\ AllDigits(SubSeq(s, i + 1, Len(s)))

\* re.match(r'^\d{10,}\.\d+$', s)
TokenRe(s) == DigitsDotDigits(s, MinTokenDigits)

(***************************************************************************)
(* An onclick attribute is  fn(q arg q)  where q is a quote when quoted.   *)
(* fn = "" is the absent (or empty) attribute.                             *)
(***************************************************************************)
NoOnclick == [fn |-> "", arg |-> <<>>, quoted |-> FALSE]

\* re.search(r"playCall\(['\"](\d+\.\d+)['\"]\)", onclick): the group, or <<>>
PlayCallRe(onclick) ==
    IF onclick.fn = "playCall" /\ onclick.quoted /\ DigitsDotDigits(onclick.arg, 1)
    THEN onclick.arg ELSE <<>>

\* re.search(r"['\"](\d{10,}\.\d+)['\"]", onclick): the group, or <<>>
QuotedTokenRe(onclick) ==
    IF onclick.fn # "" /\ onclick.quoted /\ TokenRe(onclick.arg)
    THEN onclick.arg ELSE <<>>

\* uuid from the onclick attribute: pattern 1, else pattern 2
OnclickUuidMut(onclick) ==
    IF TokenRe(PlayCallRe(onclick)) THEN PlayCallRe(onclick)
    ELSE QuotedTokenRe(onclick)
OnclickUuid(onclick) ==
    IF onclick.fn = "" THEN <<>>
    ELSE IF PlayCallRe(onclick) # <<>> THEN PlayCallRe(onclick)
    ELSE QuotedTokenRe(onclick)

\* first value of a list of attribute values that is a token, or <<>>
RECURSIVE FirstTokenAttr(_)
FirstTokenAttr(attrs) ==
    IF attrs = <<>> THEN <<>>
    ELSE IF Head(attrs) # <<>> /\ TokenRe(Head(attrs)) THEN Head(attrs)
    ELSE FirstTokenAttr(Tail(attrs))

\* primary strategy: onclick, then the control's data attributes, then the
\* data attributes of the ancestor row
PrimaryUuid(row) ==
    LET u1 == OnclickUuid(row.onclick)
        u2 == IF u1 # <<>> THEN u1 ELSE FirstTokenAttr(row.ctlAttrs)
    IN  IF u2 # <<>> THEN u2 ELSE FirstTokenAttr(row.rowAttrs)

\* fallback strategy: onclick, then the control's data attributes
FallbackUuid(row) ==
    LET u1 == OnclickUuid(row.onclick)
    IN  IF u1 # <<>> THEN u1 ELSE FirstTokenAttr(row.ctlAttrs)

\* the final validation of an extracted uuid: FALSE makes the row skipped
UuidAcceptedMut(uuid) == uuid # <<>>
UuidAnyMut(uuid) == TRUE
UuidAccepted(uuid) == uuid # <<>> /\ TokenRe(uuid)

\* call_id = f"{termination}_{did}_{cli}"
CallId(termination, did, cli) == termination \o "_" \o did \o "_" \o cli

CallOf(row, uuid) ==
    [id |-> CallId(row.termination, row.did, row.cli),
     termination |-> row.termination, did |-> row.did, cli |-> row.cli,
     uuid |-> uuid]

\* the test that guards calls.append
Surfaced(row, ledger) ==
    /\ CallId(row.termination, row.did, row.cli) \notin ledger
    /\ row.did # ""
    /\ row.cli # ""

\* Method 1: rows of the tables of class "table", any control in the row
RECURSIVE PrimaryCalls(_, _)
PrimaryCalls(rows, ledger) ==
    IF rows = <<>> THEN <<>>
    ELSE LET row == Head(rows)
             rest == PrimaryCalls(Tail(rows), ledger)
             uuid == PrimaryUuid(row)
         IN  IF /\ row.inTable
                /\ row.ncells >= 5
                /\ row.ctl # "none"
                /\ UuidAccepted(uuid)
                /\ Surfaced(row, ledger)
             THEN <<CallOf(row, uuid)>> \o rest
             ELSE rest

\* Method 2: every button whose class contains 'btn', anywhere in the page;
\* its row is the <tr> reached by climbing at most five parents
RECURSIVE FallbackCalls(_, _)
FallbackCalls(rows, ledger) ==
    IF rows = <<>> THEN <<>>
    ELSE LET row == Head(rows)
             rest == FallbackCalls(Tail(rows), ledger)
             uuid == FallbackUuid(row)
         IN  IF /\ row.ctl = "btn"
                /\ row.ncells >= 5
                /\ UuidAccepted(uuid)
                /\ Surfaced(row, ledger)
             THEN <<CallOf(row, uuid)>> \o rest
             ELSE rest

\* main.py:439  if not calls: the fallback runs when Method 1 left the
\* list empty
UseFallbackMut(primary) == TRUE
UseFallback(primary) == primary = <<>>

\* one list, calls, receives the records of Method 1 and then, when the
\* fallback runs, those of Method 2 (main.py:300, 424, 492, 510)
get_active_calls(rows, ledger) ==
    LET primary == PrimaryCalls(rows, ledger)
    IN  primary \o (IF UseFallback(primary) THEN FallbackCalls(rows, ledger)
                    ELSE <<>>)

Ids(cs) == {cs[i].id : i \in 1..Len(cs)}

-----------------------------------------------------------------------------
(***************************************************************************)
(* Snapshots.  A row is one <tr>: whether it sits in the tbody of a table  *)
(* of class "table", its number of <td> cells, the texts of its first      *)
(* three cells, its control ("btn": a button whose class contains 'btn';   *)
(* "play": another element with a play class or onclick; "none"), the      *)
(* control's onclick, the values of the control's data-uuid, data-call-id, *)
(* data-id and id attributes that are present, in that order, and the      *)
(* values of the row's data-uuid, data-call-id and data-id attributes.     *)
(* The duration and revenue cells are copied into the record and never     *)
(* read; they are left out.                                                *)
(***************************************************************************)
TenDigits == <<"1", "7", "0", "0", "0", "0", "0", "0", "0", "0">>
TokValid == TenDigits \o <<".", "1", "2", "3">>
TokOther == TenDigits \o <<"9", ".", "4">>
TokShort == <<"1", "2", "3", ".", "4">>
TokJunk == <<"c", "a", "l", "l", "-", "7">>

TokenConfigs ==
    { [onclick |-> NoOnclick, ctlAttrs |-> <<>>, rowAttrs |-> <<>>],
      [onclick |-> [fn |-> "playCall", arg |-> TokValid, quoted |-> TRUE],
       ctlAttrs |-> <<>>, rowAttrs |-> <<>>],
      [onclick |-> [fn |-> "playCall", arg |-> TokShort, quoted |-> TRUE],
       ctlAttrs |-> <<TokOther>>, rowAttrs |-> <<>>],
      [onclick |-> [fn |-> "play", arg |-> TokValid, quoted |-> TRUE],
       ctlAttrs |-> <<>>, rowAttrs |-> <<>>],
      [onclick |-> [fn |-> "play", arg |-> TokValid, quoted |-> FALSE],
       ctlAttrs |-> <<TokJunk, TokOther>>, rowAttrs |-> <<>>],
      [onclick |-> NoOnclick, ctlAttrs |-> <<>>, rowAttrs |-> <<TokValid>>] }

Did1 == "18005551234"
Cli1 == "9005551111"

MkRow(inTable, ncells, termination, did, cli, ctl, cfg) ==
    [inTable |-> inTable, ncells |-> ncells, termination |-> termination,
     did |-> did, cli |-> cli, ctl |-> ctl, onclick |-> cfg.onclick,
     ctlAttrs |-> cfg.ctlAttrs, rowAttrs |-> cfg.rowAttrs]

PlayCallCfg ==
    [onclick |-> [fn |-> "playCall", arg |-> TokValid, quoted |-> TRUE],
     ctlAttrs |-> <<>>, rowAttrs |-> <<>>]

\* rows given to the extractor alone
ExtractRows ==
    { MkRow(t, 5, term, Did1, Cli1, ctl, cfg) :
        t \in BOOLEAN, term \in {"A1", "B2"}, ctl \in {"btn", "play"},
        cfg \in TokenConfigs }
    \cup { MkRow(TRUE, 4, "A1", Did1, Cli1, "btn", PlayCallCfg),
           MkRow(TRUE, 5, "A1", "", Cli1, "btn", PlayCallCfg),
           MkRow(TRUE, 5, "A1", Did1, Cli1, "none", PlayCallCfg) }

SeqsUpTo(S, n) == UNION { [1..k -> S] : k \in 0..n }

-----------------------------------------------------------------------------
(***************************************************************************)
(* Idle values of the parts a specification does not run.                  *)
(***************************************************************************)
NoCall == [id |-> "", termination |-> "", did |-> "", cli |-> "", uuid |-> <<>>]

MonIdle ==
    /\ pc = "idle" /\ consecutive_errors = 0 /\ driver_instance = "none"
    /\ connection_issue_reported = FALSE
    /\ calls = <<>> /\ new_calls = <<>> /\ cur = NoCall
    /\ submitted = <<>> /\ notified = <<>> /\ ledger_adds = <<>>
    /\ prev_ids = {} /\ dropped_ids = {} /\ consec_ids = {}
    /\ lost_alerts = 0 /\ expiry_episode = FALSE /\ restored_alerts = 0
    /\ issue_at_recovery = FALSE /\ recovered_by = "none"
    /\ auth_lost = <<>> /\ is_monitoring = FALSE

ExtIdle == epc = "idle" /\ calls1 = <<>> /\ calls2 = <<>>

NoProbe == [ok |-> FALSE, size |-> <<>>]

WaitIdle ==
    /\ wpc = "idle" /\ stable_checks = 0 /\ max_wait = 0
    /\ last = <<>> /\ same = 0 /\ waited = 0 /\ wresult = <<>>
    /\ probes = 0 /\ seen_sizes = {} /\ fresh_only = TRUE
    /\ last_obs = <<>> /\ const_size = <<>> /\ const_source = TRUE
    /\ last_probe = NoProbe

DlIdle ==
    /\ dpc = "idle" /\ attempt = 0 /\ file = "none" /\ dresult = "none"
    /\ downloads = 0 /\ dur_probes = 0 /\ waits = <<>> /\ sleeps = 0
    /\ durs = <<>> /\ clean_run = TRUE

PoolIdle == tasks = <<>> /\ client_lock = "free" /\ batch = 0

CeilIdle == pools = <<>> /\ partial = 0

NoTriple == << "", "", "" >>

IdIdle ==
    /\ ipc = "idle" /\ triple1 = NoTriple /\ triple2 = NoTriple
    /\ id1 = "" /\ id2 = ""

GetIdle ==
    /\ gpc = <<>> /\ got = <<>> /\ ncalls = <<>>
    /\ telethon_client = <<>> /\ constructed = 0 /\ started = {}

-----------------------------------------------------------------------------
(***************************************************************************)
(* SpecExtract: get_active_calls run on a snapshot, the ids it returned    *)
(* added to the ledger as the monitoring loop does (main.py:716-717), and  *)
(* get_active_calls run again on the unchanged snapshot.                   *)
(***************************************************************************)
ExtInit ==
    /\ page \in SeqsUpTo(ExtractRows, MaxRows)
    /\ processed_calls = {}
    /\ epc = "run1" /\ calls1 = <<>> /\ calls2 = <<>>
    /\ MonIdle /\ WaitIdle /\ DlIdle /\ PoolIdle /\ CeilIdle /\ IdIdle /\ GetIdle

FirstRun ==
    /\ epc = "run1"
    /\ calls1' = get_active_calls(page, processed_calls)
    /\ epc' = "mark"
    /\ UNCHANGED << page, processed_calls, calls2, monvars, waitvars, dlvars,
                    poolvars, ceilvars, idvars, getvars >>

MarkProcessed ==
    /\ epc = "mark"
    /\ processed_calls' = processed_calls \cup Ids(calls1)
    /\ epc' = "run2"
    /\ UNCHANGED << page, calls1, calls2, monvars, waitvars, dlvars,
                    poolvars, ceilvars, idvars, getvars >>

SecondRun ==
    /\ epc = "run2"
    /\ calls2' = get_active_calls(page, processed_calls)
    /\ epc' = "done"
    /\ UNCHANGED << page, processed_calls, calls1, monvars, waitvars, dlvars,
                    poolvars, ceilvars, idvars, getvars >>

ExtNext == FirstRun \/ MarkProcessed \/ SecondRun

SpecExtract == ExtInit /\ [][ExtNext]_vars

\* C4: once the ids returned by a first run of the extractor are in the
\* ledger, a second run on the unchanged snapshot returns no record.
C4_SecondRunEmpty == epc = "done" => calls2 = <<>>

\* C5: every record the extractor returns, from either strategy, carries a
\* recording token matching ^\d{10,}\.\d+$; a row whose extracted token
\* does not match is not in the result.
C5_TokensValid ==
    /\ \A i \in 1..Len(calls1) : TokenRe(calls1[i].uuid)
    /\ \A i \in 1..Len(calls2) : TokenRe(calls2[i].uuid)
    /\ epc # "run1" =>
          \A i \in 1..Len(page) :
              (PrimaryUuid(page[i]) # <<>> /\ ~TokenRe(PrimaryUuid(page[i])))
                  => \A j \in 1..Len(calls1) :
                         calls1[j].uuid # PrimaryUuid(page[i])

\* a snapshot with a row whose token fails the validation next to a row
\* that is returned
C5_Witness ==
    /\ epc = "done"
    /\ calls1 # <<>>
    /\ \E i \in 1..Len(page) :
          /\ page[i].inTable /\ page[i].ncells >= 5 /\ page[i].ctl = "btn"
          /\ page[i].did # "" /\ page[i].cli # ""
          /\ page[i].onclick.arg = TokShort
          /\ CallId(page[i].termination, page[i].did, page[i].cli)
                 \notin Ids(calls1)

\* the list a run returned is the list of one strategy: that of Method 1
\* when it is not empty, that of Method 2 otherwise
OneStrategy(res, rows, ledger) ==
    LET primary == PrimaryCalls(rows, ledger)
    IN  IF primary # <<>> THEN res = primary
        ELSE res = FallbackCalls(rows, ledger)

\* C26: in one run of the extractor the fallback is run only when Method 1
\* yielded no record, and the returned list never holds records of both.
C26_FallbackOnlyWhenPrimaryEmpty ==
    /\ epc = "mark" => OneStrategy(calls1, page, processed_calls)
    /\ epc = "done" => OneStrategy(calls2, page, processed_calls)

\* Method 1 returned a record, and the fallback would have returned more
C26_Witness ==
    /\ epc = "mark"
    /\ PrimaryCalls(page, processed_calls) # <<>>
    /\ Len(FallbackCalls(page, processed_calls)) > Len(calls1)

\* C27: when the fallback runs, a row with at least five cells and a button
\* gets the id and the token that Method 1 derives for that row, also when
\* the token is only in a data attribute of the row.
C27_FallbackSameToken ==
    (epc = "mark" /\ PrimaryCalls(page, processed_calls) = <<>>) =>
        \A i \in 1..Len(page) :
            (/\ page[i].ncells >= 5 /\ page[i].ctl = "btn"
             /\ page[i].did # "" /\ page[i].cli # ""
             /\ TokenRe(PrimaryUuid(page[i])))
            => \E j \in 1..Len(calls1) :
                   calls1[j] = CallOf(page[i], PrimaryUuid(page[i]))

\* the token each source yields for a row, <<>> when it matches nothing
SourceA(row) == PlayCallRe(row.onclick)
SourceB(row) == QuotedTokenRe(row.onclick)
SourceC(row) == FirstTokenAttr(row.ctlAttrs)
SourceD(row) == FirstTokenAttr(row.rowAttrs)

\* C28: Method 1 takes the token from the first source that matches, in
\* the order playCall(..) in onclick, quoted token in onclick, data
\* attributes of the control, data attributes of the row; a later source
\* counts only when every earlier one matched nothing, and a first match
\* that fails ^\d{10,}\.\d+$ leaves the row without a record.
C28_FirstMatchWins ==
    \A i \in 1..Len(page) :
        LET row == page[i]
            a == SourceA(row)
            b == SourceB(row)
            c == SourceC(row)
            d == SourceD(row)
            u == PrimaryUuid(row)
        IN  /\ a # <<>> => u = a
            /\ (a = <<>> /\ b # <<>>) => u = b
            /\ (a = <<>> /\ b = <<>> /\ c # <<>>) => u = c
            /\ (a = <<>> /\ b = <<>> /\ c = <<>>) => u = d
            /\ (u # <<>> /\ ~TokenRe(u)) =>
                   /\ PrimaryCalls(<<row>>, {}) = <<>>
                   /\ (epc = "mark" /\ Len(page) = 1) => calls1 = <<>>

\* a snapshot with a row whose playCall argument is too short while its
\* control carries a valid data attribute, next to a returned row whose
\* token comes from the row's data attribute
C28_Witness ==
    /\ epc = "mark"
    /\ \E i, k \in 1..Len(page) :
          /\ page[i].inTable /\ page[i].ncells >= 5 /\ page[i].ctl = "btn"
          /\ SourceA(page[i]) = TokShort
          /\ SourceC(page[i]) = TokOther
          /\ SourceA(page[k]) = <<>> /\ SourceB(page[k]) = <<>>
          /\ SourceC(page[k]) = <<>> /\ SourceD(page[k]) = TokValid
          /\ \E j \in 1..Len(calls1) :
                 calls1[j] = CallOf(page[k], TokValid)

-----------------------------------------------------------------------------
(***************************************************************************)
(* wait_size_stable (main.py:105-127).  An optional size is a sequence:    *)
(* <<>> is None and <<n>> is the size n.  One probe is a HEAD request: it  *)
(* fails (ok = FALSE: an exception, or a status other than 200/206), or    *)
(* answers without a usable Content-Length (size None), or answers with a  *)
(* size in 0..MaxSize.                                                     *)
(***************************************************************************)
ProbeOutcomes ==
    { [ok |-> FALSE, size |-> <<>>], [ok |-> TRUE, size |-> <<>>] }
    \cup { [ok |-> TRUE, size |-> <<n>>] : n \in 0..MaxSize }

\* main.py:109  while waited < max_wait
WaitContinuesMut(w, mw) == w <= mw
WaitContinues(w, mw) == w < mw

\* main.py:116  if size and size == last
SizeRepeats(size, last_) == size # <<>> /\ size # <<0>> /\ size = last_

\* main.py:118  if same >= stable_checks
StableReachedMut(n, k) == n >= k - 1
StableEarlyMut(n, k) == n >= 1
StableReached(n, k) == n >= k

\* one iteration of the loop: the probe, then the return or the sleep
WaitProbe ==
    /\ wpc = "loop"
    /\ WaitContinues(waited, max_wait)
    /\ \E outcome \in ProbeOutcomes :
        /\ probes' = probes + 1
        /\ last_probe' = outcome
        /\ IF ~outcome.ok
           THEN /\ UNCHANGED << last, same, wresult, seen_sizes, fresh_only,
                                last_obs, const_size >>
                /\ const_source' = FALSE
                /\ waited' = waited + 1
                /\ wpc' = "loop"
           ELSE LET size == outcome.size
                    rep == SizeRepeats(size, last)
                    same1 == IF rep THEN same + 1 ELSE 0
                    ret == rep /\ StableReached(same1, stable_checks)
                IN  /\ same' = same1
                    /\ seen_sizes' = IF size = <<>> THEN seen_sizes
                                     ELSE seen_sizes \cup {size}
                    /\ fresh_only' = (fresh_only /\ size # <<>>
                                        /\ size \notin seen_sizes)
                    /\ last_obs' = IF size = <<>> THEN last_obs ELSE size
                    /\ const_source' = (const_source /\ size # <<>>
                                          /\ (probes = 0 \/ const_size = size))
                    /\ const_size' = IF probes = 0 THEN size ELSE const_size
                    /\ IF ret
                       THEN /\ wresult' = size
                            /\ wpc' = "done"
                            /\ UNCHANGED << last, waited >>
                       ELSE /\ last' = size
                            /\ waited' = waited + 1
                            /\ wpc' = "loop"
                            /\ UNCHANGED wresult
    /\ UNCHANGED << stable_checks, max_wait >>
    /\ UNCHANGED << processed_calls, page, monvars, extvars, dlvars,
                    poolvars, ceilvars, idvars, getvars >>

\* main.py:127  return last
WaitTimeout ==
    /\ wpc = "loop"
    /\ ~WaitContinues(waited, max_wait)
    /\ wresult' = last
    /\ wpc' = "done"
    /\ UNCHANGED << stable_checks, max_wait, last, same, waited, probes,
                    seen_sizes, fresh_only, last_obs, const_size,
                    const_source, last_probe >>
    /\ UNCHANGED << processed_calls, page, monvars, extvars, dlvars,
                    poolvars, ceilvars, idvars, getvars >>

WaitInit ==
    /\ stable_checks \in 1..MaxChecks
    /\ max_wait \in 0..MaxWaitBound
    /\ wpc = "loop" /\ last = <<>> /\ same = 0 /\ waited = 0
    /\ wresult = <<>> /\ probes = 0 /\ seen_sizes = {} /\ fresh_only = TRUE
    /\ last_obs = <<>> /\ const_size = <<>> /\ const_source = TRUE
    /\ last_probe = NoProbe
    /\ processed_calls = {} /\ page = <<>>
    /\ MonIdle /\ ExtIdle /\ DlIdle /\ PoolIdle /\ CeilIdle /\ IdIdle /\ GetIdle

WaitNext == WaitProbe \/ WaitTimeout

SpecWait == WaitInit /\ [][WaitNext]_vars

\* the source has answered the same positive size on every probe so far
ConstantSource ==
    const_source /\ probes >= 1 /\ const_size # <<>> /\ const_size # <<0>>

\* C6 (as stated): a source answering the same size N on every probe makes
\* wait_size_stable return N after exactly stable_checks probes.
C6_ExactlyKProbes ==
    (wpc = "done" /\ ConstantSource /\ max_wait > stable_checks)
        => (wresult = const_size /\ probes = stable_checks)

\* C6 (amended): a source answering the same positive size N on every probe
\* makes wait_size_stable, when max_wait > stable_checks, return N at probe
\* stable_checks + 1, after stable_checks one-second sleeps, and not before.
C6_KPlusOneProbes ==
    /\ (wpc = "done" /\ ConstantSource /\ max_wait > stable_checks)
          => /\ wresult = const_size
             /\ probes = stable_checks + 1
             /\ waited = stable_checks
    /\ (wpc = "loop" /\ ConstantSource /\ max_wait > stable_checks)
          => probes <= stable_checks

C6_Witness ==
    /\ wpc = "done" /\ ConstantSource /\ const_size = <<2>>
    /\ stable_checks = 3 /\ max_wait > 3
    /\ wresult = <<2>> /\ probes = 4

\* C7: with a source whose sizes never repeat (each probe fails or reports
\* a size not reported before), wait_size_stable makes exactly max_wait
\* probes and returns the last size observed, None when every probe failed.
C7_TimeoutReturnsLast ==
    /\ (wpc = "done" /\ fresh_only)
          => (probes = max_wait /\ waited = max_wait /\ wresult = last_obs)
    /\ fresh_only => probes <= max_wait

C7_Witness ==
    /\ wpc = "done" /\ fresh_only /\ max_wait >= 3 /\ probes = max_wait
    /\ Cardinality(seen_sizes) >= 2 /\ wresult = last_obs /\ wresult # <<>>

\* C21: a probe that fails leaves the last-seen size and the run-length
\* counter unchanged; a probe that reports a size different from the
\* last-seen size sets the counter to zero and records the new size; and
\* wait_size_stable returns before its budget is exhausted only with the
\* counter at stable_checks.
C21_MissedSampleKeepsCounter ==
    /\ [][probes' = probes + 1 =>
            /\ ~last_probe'.ok => (last' = last /\ same' = same)
            /\ (last_probe'.ok /\ last_probe'.size # last) =>
                   (same' = 0 /\ last' = last_probe'.size)]_vars
    /\ []((wpc = "done" /\ waited < max_wait) =>
             (same >= stable_checks /\ wresult # <<>>))

\* the latest probe failed after a size had changed and then repeated: the
\* counter and the last-seen size are still those of the probe before
C21_Witness ==
    /\ wpc = "loop" /\ probes >= 1 /\ ~last_probe.ok
    /\ same >= 1 /\ last # <<>>
    /\ Cardinality(seen_sizes) >= 2

-----------------------------------------------------------------------------
(***************************************************************************)
(* download_audio_via_api (main.py:541-604).  wait_size_stable is called   *)
(* for its delay only: its result is discarded (main.py:560, 588) and it   *)
(* raises nothing, so a call is one step that records its arguments.  A    *)
(* GET answers "audio" (status ok, Content-Type audio), "other" (status    *)
(* ok, another Content-Type) or "error" (an exception of the transport or  *)
(* of raise_for_status).  Durations are in tenths of a second.             *)
(***************************************************************************)
StableInitial == 6
WaitInitial == 120
StableInterim == 4
WaitInterim == 45
TargetTenths == 65
MaxAttempts == 5

Durations == {0, TargetTenths - 1, TargetTenths, TargetTenths + 5}

GetOutcomes == {"audio", "other", "error"}

\* main.py:583  for attempt in range(max_attempts)
MoreAttemptsMut(a) == a < MaxAttempts - 1
MoreAttemptsSixMut(a) == a <= MaxAttempts
MoreAttempts(a) == a < MaxAttempts

\* main.py:585  if dur >= target
LongEnoughMut(dur) == dur > TargetTenths
LongEnough(dur) == dur >= TargetTenths

\* main.py:595  time.sleep(2 * (attempt + 1))
Backoff(a) == 2 * (a + 1)

DlUnchanged ==
    UNCHANGED << processed_calls, page, monvars, extvars, waitvars,
                 poolvars, ceilvars, idvars, getvars >>

\* main.py:558-566
DlInitialWait ==
    /\ dpc = "wait"
    /\ waits' = Append(waits, <<StableInitial, WaitInitial>>)
    /\ dpc' = "get"
    /\ UNCHANGED << attempt, file, dresult, downloads, dur_probes, sleeps,
                    durs, clean_run >>
    /\ DlUnchanged

\* main.py:568-579, and the handler of main.py:602-604
DlFirstGet ==
    /\ dpc = "get"
    /\ downloads' = downloads + 1
    /\ \E outcome \in GetOutcomes :
        IF outcome = "audio"
        THEN /\ file' = "audio"
             /\ attempt' = 0
             /\ dpc' = "probe"
             /\ UNCHANGED << dresult, clean_run >>
        ELSE /\ dresult' = "None"
             /\ dpc' = "done"
             /\ clean_run' = FALSE
             /\ UNCHANGED << file, attempt >>
    /\ UNCHANGED << dur_probes, waits, sleeps, durs >>
    /\ DlUnchanged

\* main.py:583-586
DlProbe ==
    /\ dpc = "probe"
    /\ MoreAttempts(attempt)
    /\ dur_probes' = dur_probes + 1
    /\ \E dur \in Durations :
        /\ durs' = Append(durs, dur)
        /\ IF LongEnough(dur)
           THEN dresult' = "file" /\ dpc' = "done"
           ELSE dpc' = "rewait" /\ UNCHANGED dresult
    /\ UNCHANGED << attempt, file, downloads, waits, sleeps, clean_run >>
    /\ DlUnchanged

\* main.py:588-595
DlInterimWait ==
    /\ dpc = "rewait"
    /\ waits' = Append(waits, <<StableInterim, WaitInterim>>)
    /\ sleeps' = sleeps + Backoff(attempt)
    /\ dpc' = "reget"
    /\ UNCHANGED << attempt, file, dresult, downloads, dur_probes, durs,
                    clean_run >>
    /\ DlUnchanged

\* main.py:596-599, and the handler of main.py:602-604
DlReGet ==
    /\ dpc = "reget"
    /\ downloads' = downloads + 1
    /\ \E outcome \in GetOutcomes :
        IF outcome = "error"
        THEN /\ dresult' = "None"
             /\ dpc' = "done"
             /\ clean_run' = FALSE
             /\ UNCHANGED << file, attempt >>
        ELSE /\ file' = outcome
             /\ attempt' = attempt + 1
             /\ dpc' = "probe"
             /\ UNCHANGED << dresult, clean_run >>
    /\ UNCHANGED << dur_probes, waits, sleeps, durs >>
    /\ DlUnchanged

\* main.py:601  return filename
DlLoopEnd ==
    /\ dpc = "probe"
    /\ ~MoreAttempts(attempt)
    /\ dresult' = "file"
    /\ dpc' = "done"
    /\ UNCHANGED << attempt, file, downloads, dur_probes, waits, sleeps,
                    durs, clean_run >>
    /\ DlUnchanged

DlInit ==
    /\ dpc \in {"wait", "get"}
    /\ attempt = 0 /\ file = "none" /\ dresult = "none"
    /\ downloads = 0 /\ dur_probes = 0 /\ waits = <<>> /\ sleeps = 0
    /\ durs = <<>> /\ clean_run = TRUE
    /\ processed_calls = {} /\ page = <<>>
    /\ MonIdle /\ ExtIdle /\ WaitIdle /\ PoolIdle /\ CeilIdle /\ IdIdle /\ GetIdle

DlNext ==
    \/ DlInitialWait
    \/ DlFirstGet
    \/ DlProbe
    \/ DlInterimWait
    \/ DlReGet
    \/ DlLoopEnd

SpecDownload == DlInit /\ [][DlNext]_vars

\* every duration measured so far was below the target
ShortOnly == \A i \in 1..Len(durs) : durs[i] < TargetTenths

\* C8 (as stated): with every measured duration below the target and no
\* transport error, download_audio_via_api makes exactly max_attempts
\* downloads in total and returns the file.
C8_ExactlyMaxAttemptsDownloads ==
    (dpc = "done" /\ ShortOnly /\ clean_run)
        => (downloads = MaxAttempts /\ dresult = "file")

\* C8 (amended): with every measured duration below the target and no
\* transport error, download_audio_via_api makes the initial download and
\* exactly max_attempts re-downloads (max_attempts + 1 transfers in total),
\* measures the duration max_attempts times, and returns the last file,
\* whose duration it has not measured.
C8_InitialPlusMaxAttempts ==
    (dpc = "done" /\ ShortOnly /\ clean_run)
        => /\ downloads = MaxAttempts + 1
           /\ dur_probes = MaxAttempts
           /\ Len(durs) = MaxAttempts
           /\ attempt = MaxAttempts
           /\ dresult = "file"

C8_Witness ==
    /\ dpc = "done" /\ ShortOnly /\ clean_run
    /\ Len(durs) = MaxAttempts /\ downloads = MaxAttempts + 1
    /\ dresult = "file" /\ file = "audio"

\* C20: when the first downloaded body measures at least the 6.5 s target,
\* download_audio_via_api returns that file after exactly one download and
\* one duration probe, with no interim stability wait, no backoff sleep and
\* no second download.
C20_FirstBodyLongEnough ==
    (dpc = "done" /\ durs # <<>> /\ durs[1] >= TargetTenths) =>
        /\ dresult = "file" /\ file = "audio"
        /\ downloads = 1 /\ dur_probes = 1
        /\ sleeps = 0
        /\ Len(waits) <= 1
        /\ \A i \in 1..Len(waits) :
               waits[i] = << StableInitial, WaitInitial >>

\* the first body measures 7.0 s after the initial 6-check wait
C20_Witness ==
    /\ dpc = "done" /\ durs = << TargetTenths + 5 >>
    /\ dresult = "file" /\ downloads = 1
    /\ waits = << << StableInitial, WaitInitial >> >>

\* C29: every transfer is rejected when its content type is not audio:
\* download_audio_via_api never returns a file whose latest body came from
\* a response that was not audio.
C29_ReturnedBodyIsAudio == (dpc = "done" /\ dresult = "file") => file = "audio"

\* C30: once the first download has written an audio file, the function
\* returns the file in every continuation, also when a later re-download
\* fails with a transport or HTTP error.
C30_FileReturnedAfterFirstSuccess ==
    (dpc = "done" /\ file # "none") => dresult = "file"

(***************************************************************************)
(* SpecAcquire: the acquisition path of one Call Processor.  A run is      *)
(* either download_audio_via_api, in which a call of wait_size_stable is   *)
(* one step that records the budget it is given, or wait_size_stable       *)
(* itself on a budget of its own.  The worker thread is not stopped: a     *)
(* step that can be taken is taken.                                        *)
(***************************************************************************)
AcquireInit == DlInit \/ WaitInit

AcquireNext == DlNext \/ WaitNext

SpecAcquire == AcquireInit /\ [][AcquireNext]_vars /\ WF_vars(AcquireNext)

\* the budgets download_audio_via_api hands to wait_size_stable
InitialBudget == << StableInitial, WaitInitial >>
InterimBudget == << StableInterim, WaitInterim >>

\* the interim waits among the waits made so far
InterimWaits == SelectSeq(waits, LAMBDA w : w = InterimBudget)

\* C32: every run of the acquisition path ends with a file or a failure,
\* whatever the probes, downloads and durations are: wait_size_stable makes
\* at most max_wait probes, download_audio_via_api gives the initial wait a
\* budget of 120 and each of at most 5 interim waits a budget of 45, and
\* makes at most 1 + 5 downloads.
C32_AcquisitionTerminates ==
    /\ [](wpc # "idle" => (probes <= max_wait /\ waited <= max_wait))
    /\ [](dpc # "idle" =>
            /\ attempt <= MaxAttempts
            /\ downloads <= MaxAttempts + 1
            /\ dur_probes <= MaxAttempts
            /\ Len(InterimWaits) <= MaxAttempts
            /\ Len(waits) <= Len(InterimWaits) + 1
            /\ \A i \in 1..Len(waits) :
                   waits[i] = IF i = 1 /\ Len(waits) > Len(InterimWaits)
                              THEN InitialBudget ELSE InterimBudget)
    /\ [](dpc = "done" => dresult \in {"file", "None"})
    /\ <>(dpc = "done" \/ wpc = "done")

\* the longest run: the initial wait and five interim waits, six downloads
C32_Witness ==
    /\ dpc = "done" /\ dresult = "file"
    /\ Len(waits) = MaxAttempts + 1 /\ Len(InterimWaits) = MaxAttempts
    /\ downloads = MaxAttempts + 1 /\ sleeps = 30

-----------------------------------------------------------------------------
(***************************************************************************)
(* The Monitoring Loop: monitor_calls_with_recovery (main.py:646-740) with *)
(* initialize_driver_with_login (main.py:178-194), login_to_orangecarrier  *)
(* (main.py:247-281), notify_connection_lost (main.py:145-155) and         *)
(* quit_driver_safely (main.py:167-175).                                   *)
(***************************************************************************)
MaxRetries == 3
MaxErrors == 5

NoTokenCfg == [onclick |-> NoOnclick, ctlAttrs |-> <<>>, rowAttrs |-> <<>>]

\* rows the dashboard shows to the monitoring loop
MonRows ==
    { MkRow(TRUE, 5, "A1", Did1, Cli1, "btn", PlayCallCfg),
      MkRow(TRUE, 5, "A1", Did1, Cli1, "btn", NoTokenCfg),
      MkRow(FALSE, 5, "B2", Did1, Cli1, "btn", PlayCallCfg) }

MonPages == SeqsUpTo(MonRows, MaxPageRows)

AllIds == { CallId(r.termination, r.did, r.cli) : r \in MonRows }

\* ids of the rows of a snapshot that can be dispatched at all
RowIds(rows) == Ids(PrimaryCalls(rows, {})) \cup Ids(FallbackCalls(rows, {}))

\* a row from which neither method recovers a token of the required form
Tokenless(row) == ~TokenRe(PrimaryUuid(row)) /\ ~TokenRe(FallbackUuid(row))

\* ids a snapshot shows, but on rows without a usable token only
TokenlessOnly(rows) ==
    LET IdAt(i) == CallId(rows[i].termination, rows[i].did, rows[i].cli)
    IN  { IdAt(i) : i \in { j \in 1..Len(rows) : Tokenless(rows[j]) } }
        \ { IdAt(i) : i \in { j \in 1..Len(rows) : ~Tokenless(rows[j]) } }

(***************************************************************************)
(* One login attempt ends "ok" (no error, the location is not the login    *)
(* page), "stay" (no error, still on the login page) or "raise".           *)
(* login_to_orangecarrier over the outcomes of its attempts: whether it    *)
(* returned True, and the alerts it sent.                                  *)
(***************************************************************************)
AttemptOutcomes == {"ok", "stay", "raise"}

LoginOutcomes == [1..MaxRetries -> AttemptOutcomes]

\* main.py:276  if attempt == max_retries - 1
IsFinalAttempt(a) == a = MaxRetries - 1

RECURSIVE LoginFrom(_, _)
LoginFrom(outs, a) ==
    IF a >= MaxRetries
    THEN [ok |-> FALSE, lost |-> 0, restored |-> 0]
    ELSE IF outs[a + 1] = "ok"
    THEN [ok |-> TRUE, lost |-> 0, restored |-> 1]
    ELSE LET r == LoginFrom(outs, a + 1)
             l == IF outs[a + 1] = "raise" /\ IsFinalAttempt(a) THEN 1 ELSE 0
         IN  [ok |-> r.ok, lost |-> r.lost + l, restored |-> r.restored]

login_to_orangecarrier(outs) == LoginFrom(outs, 0)

\* what login_to_orangecarrier can return and send
LoginResults == { login_to_orangecarrier(outs) : outs \in LoginOutcomes }

\* main.py:680, 694, 734  if consecutive_errors >= max_errors
CeilingReachedMut(ce) == ce > MaxErrors
CeilingReached(ce) == ce >= MaxErrors

\* main.py:717  processed_calls.add(call['id'])
LedgerAfterAddMut(ledger, id) == ledger
LedgerReplaceMut(ledger, id) == {id}
LedgerAfterAdd(ledger, id) == ledger \cup {id}

\* main.py:709  [call for call in calls if call['id'] not in processed_calls]
NewCalls(cs, ledger) == SelectSeq(cs, LAMBDA c : c.id \notin ledger)

Bump(f, id) == [f EXCEPT ![id] = @ + 1]

MonUnchanged ==
    UNCHANGED << is_monitoring, extvars, waitvars, dlvars, poolvars,
                 ceilvars, idvars, getvars >>

\* main.py:655-656, the session is present
LoopDriverLive ==
    /\ pc = "loop" /\ driver_instance = "live"
    /\ pc' = "fetch"
    /\ restored_alerts' = 0 /\ issue_at_recovery' = FALSE
    /\ recovered_by' = "none"
    /\ UNCHANGED << processed_calls, page, consecutive_errors,
                    driver_instance, connection_issue_reported, calls,
                    new_calls, cur, submitted, notified, ledger_adds,
                    prev_ids, dropped_ids, consec_ids, lost_alerts,
                    expiry_episode >>
    /\ auth_lost' = <<>>
    /\ MonUnchanged

\* main.py:656-661 with initialize_driver_with_login returning False:
\* setup_driver raised, or every login attempt failed
InitDriverFails ==
    /\ pc = "loop" /\ driver_instance = "none"
    /\ consecutive_errors < MaxConsecutive
    /\ \E setup \in {"ok", "raise"}, r \in LoginResults :
        LET n == IF setup = "raise" THEN 1 ELSE r.lost + 1
        IN  /\ setup = "raise" \/ ~r.ok
            /\ lost_alerts' = IF expiry_episode THEN lost_alerts + n
                              ELSE lost_alerts
            /\ lost_alerts' <= MaxLostAlerts
            /\ auth_lost' = IF setup = "raise" THEN <<>> ELSE <<n>>
    /\ connection_issue_reported' = TRUE
    /\ driver_instance' = "none"
    /\ consecutive_errors' = consecutive_errors + 1
    /\ pc' = "loop"
    /\ restored_alerts' = 0 /\ issue_at_recovery' = FALSE
    /\ recovered_by' = "none"
    /\ UNCHANGED << processed_calls, page, calls, new_calls, cur, submitted,
                    notified, ledger_adds, prev_ids, dropped_ids, consec_ids,
                    expiry_episode >>
    /\ MonUnchanged

\* main.py:656-665 with initialize_driver_with_login returning True
InitDriverSucceeds ==
    /\ pc = "loop" /\ driver_instance = "none"
    /\ \E r \in LoginResults :
        LET previous_issue == connection_issue_reported
        IN  /\ r.ok
            /\ restored_alerts' =
                   r.restored + (IF previous_issue THEN 1 ELSE 0)
            /\ issue_at_recovery' = previous_issue
    /\ connection_issue_reported' = FALSE
    /\ driver_instance' = "live"
    /\ consecutive_errors' = 0
    /\ pc' = "fetch"
    /\ recovered_by' = "reinit"
    /\ expiry_episode' = FALSE /\ lost_alerts' = 0
    /\ UNCHANGED << processed_calls, page, calls, new_calls, cur, submitted,
                    notified, ledger_adds, prev_ids, dropped_ids, consec_ids >>
    /\ auth_lost' = <<>>
    /\ MonUnchanged

\* main.py:669-672 raising, handled at main.py:688-699
FetchRaises ==
    /\ pc = "fetch"
    /\ LET ce == consecutive_errors + 1
           first == IF connection_issue_reported THEN 0 ELSE 1
           ceiling == CeilingReached(ce)
           n == first + (IF ceiling THEN 1 ELSE 0)
       IN  /\ consecutive_errors' = ce
           /\ driver_instance' = IF ceiling THEN "none" ELSE driver_instance
           /\ lost_alerts' = IF expiry_episode THEN lost_alerts + n
                             ELSE lost_alerts
           /\ lost_alerts' <= MaxLostAlerts
           /\ restored_alerts' = IF n > 0 THEN 0 ELSE restored_alerts
    /\ connection_issue_reported' = TRUE
    /\ pc' = "loop"
    /\ UNCHANGED << processed_calls, page, calls, new_calls, cur, submitted,
                    notified, ledger_adds, prev_ids, dropped_ids, consec_ids,
                    expiry_episode, issue_at_recovery, recovered_by >>
    /\ UNCHANGED auth_lost
    /\ MonUnchanged

\* main.py:669-672, the dashboard is shown
FetchOk ==
    /\ pc = "fetch"
    /\ page' \in MonPages
    /\ pc' = "extract"
    /\ UNCHANGED << processed_calls, consecutive_errors, driver_instance,
                    connection_issue_reported, calls, new_calls, cur,
                    submitted, notified, ledger_adds, prev_ids, dropped_ids,
                    consec_ids, lost_alerts, expiry_episode, restored_alerts,
                    issue_at_recovery, recovered_by >>
    /\ UNCHANGED auth_lost
    /\ MonUnchanged

\* main.py:672-685: the fetch landed on the login page and the re-login
\* failed.  lost_alerts counts the alert of the first observation (sent at
\* main.py:675, or sent earlier and suppressed by the flag) and every
\* 'connection lost' alert after it.
FetchExpiredLoginFails ==
    /\ pc = "fetch"
    /\ \E r \in LoginResults :
        LET ce == consecutive_errors + 1
            ceiling == CeilingReached(ce)
            first == IF connection_issue_reported THEN 0 ELSE 1
            n == r.lost + (IF ceiling THEN 1 ELSE 0)
        IN  /\ ~r.ok
            /\ consecutive_errors' = ce
            /\ driver_instance' = IF ceiling THEN "none" ELSE driver_instance
            /\ lost_alerts' = IF expiry_episode THEN lost_alerts + first + n
                              ELSE 1 + n
            /\ lost_alerts' <= MaxLostAlerts
            /\ restored_alerts' =
                   IF first + n > 0 THEN 0 ELSE restored_alerts
            /\ auth_lost' = <<r.lost>>
    /\ connection_issue_reported' = TRUE
    /\ expiry_episode' = TRUE
    /\ pc' = "loop"
    /\ UNCHANGED << processed_calls, page, calls, new_calls, cur, submitted,
                    notified, ledger_adds, prev_ids, dropped_ids, consec_ids,
                    issue_at_recovery, recovered_by >>
    /\ MonUnchanged

\* main.py:672-687: the fetch landed on the login page and the re-login
\* succeeded; the driver shows the page the login led to
FetchExpiredLoginOk ==
    /\ pc = "fetch"
    /\ \E r \in LoginResults :
        LET first == IF connection_issue_reported THEN 0 ELSE 1
        IN  /\ r.ok
            /\ restored_alerts' =
                   (IF first > 0 THEN 0 ELSE restored_alerts) + r.restored
    /\ page' \in MonPages
    /\ consecutive_errors' = 0
    /\ connection_issue_reported' = FALSE
    /\ issue_at_recovery' = TRUE
    /\ recovered_by' = "relogin"
    /\ expiry_episode' = FALSE /\ lost_alerts' = 0
    /\ pc' = "extract"
    /\ UNCHANGED << processed_calls, driver_instance, calls, new_calls, cur,
                    submitted, notified, ledger_adds, prev_ids, dropped_ids,
                    consec_ids >>
    /\ auth_lost' = <<>>
    /\ MonUnchanged

\* main.py:701 raising (get_cookies), handled at main.py:730-738
ExtractRaises ==
    /\ pc = "extract"
    /\ LET ce == consecutive_errors + 1
           ceiling == CeilingReached(ce)
       IN  /\ consecutive_errors' = IF ceiling THEN 0 ELSE ce
           /\ driver_instance' = IF ceiling THEN "none" ELSE driver_instance
           /\ connection_issue_reported' =
                  IF ceiling THEN TRUE ELSE connection_issue_reported
           /\ lost_alerts' = IF expiry_episode /\ ceiling
                             THEN lost_alerts + 1 ELSE lost_alerts
           /\ lost_alerts' <= MaxLostAlerts
           /\ restored_alerts' = IF ceiling THEN 0 ELSE restored_alerts
    /\ pc' = "loop"
    /\ page' = <<>>
    /\ UNCHANGED << processed_calls, calls, new_calls, cur, submitted,
                    notified, ledger_adds, prev_ids, dropped_ids, consec_ids,
                    expiry_episode, issue_at_recovery, recovered_by >>
    /\ UNCHANGED auth_lost
    /\ MonUnchanged

\* main.py:701-711: cookies, extraction, 'connection restored', new_calls
Extract ==
    /\ pc = "extract"
    /\ LET cs == get_active_calls(page, processed_calls)
           nc == NewCalls(cs, processed_calls)
       IN  /\ calls' = cs
           /\ new_calls' = nc
           /\ pc' = IF nc # <<>> THEN "add" ELSE "end"
    /\ connection_issue_reported' = FALSE
    /\ restored_alerts' = IF connection_issue_reported
                          THEN restored_alerts + 1 ELSE restored_alerts
    /\ issue_at_recovery' = IF connection_issue_reported THEN TRUE
                            ELSE issue_at_recovery
    /\ recovered_by' = IF connection_issue_reported THEN "clean"
                       ELSE recovered_by
    /\ expiry_episode' = FALSE /\ lost_alerts' = 0
    /\ prev_ids' = RowIds(page)
    /\ consec_ids' = consec_ids \cup (prev_ids \cap RowIds(page))
    /\ dropped_ids' = dropped_ids \cup (TokenlessOnly(page) \ processed_calls)
    /\ UNCHANGED << processed_calls, page, consecutive_errors,
                    driver_instance, cur, submitted, notified, ledger_adds >>
    /\ UNCHANGED auth_lost
    /\ MonUnchanged

\* main.py:716-717
DispatchAdd ==
    /\ pc = "add"
    /\ cur' = Head(new_calls)
    /\ processed_calls' = LedgerAfterAdd(processed_calls, Head(new_calls).id)
    /\ ledger_adds' = IF Head(new_calls).id \in processed_calls
                      THEN ledger_adds
                      ELSE Bump(ledger_adds, Head(new_calls).id)
    /\ pc' = "notify"
    /\ UNCHANGED << page, consecutive_errors, driver_instance,
                    connection_issue_reported, calls, new_calls, submitted,
                    notified, prev_ids, dropped_ids, consec_ids, lost_alerts,
                    expiry_episode, restored_alerts, issue_at_recovery,
                    recovered_by >>
    /\ UNCHANGED auth_lost
    /\ MonUnchanged

\* main.py:719  send_instant_notification_sync (it raises nothing)
DispatchNotify ==
    /\ pc = "notify"
    /\ notified' = Bump(notified, cur.id)
    /\ pc' = "submit"
    /\ UNCHANGED << processed_calls, page, consecutive_errors,
                    driver_instance, connection_issue_reported, calls,
                    new_calls, cur, submitted, ledger_adds, prev_ids,
                    dropped_ids,
                    consec_ids, lost_alerts, expiry_episode, restored_alerts,
                    issue_at_recovery, recovered_by >>
    /\ UNCHANGED auth_lost
    /\ MonUnchanged

\* main.py:720  executor.submit(process_single_call, ...), and main.py:722
\* after the last record
DispatchSubmit ==
    /\ pc = "submit"
    /\ submitted' = Bump(submitted, cur.id)
    /\ new_calls' = Tail(new_calls)
    /\ pc' = IF Tail(new_calls) # <<>> THEN "add" ELSE "end"
    /\ UNCHANGED << processed_calls, page, consecutive_errors,
                    driver_instance, connection_issue_reported, calls, cur,
                    notified, ledger_adds, prev_ids, dropped_ids, consec_ids,
                    lost_alerts, expiry_episode, restored_alerts,
                    issue_at_recovery, recovered_by >>
    /\ UNCHANGED auth_lost
    /\ MonUnchanged

\* main.py:724-725; the snapshot and the locals calls and call are dead
\* once the iteration ends, and so is the record of a dropped id that this
\* cycle has dispatched
CycleEnd ==
    /\ pc = "end"
    /\ consecutive_errors' = 0
    /\ pc' = "loop"
    /\ page' = <<>> /\ calls' = <<>> /\ cur' = NoCall
    /\ dropped_ids' = dropped_ids \ processed_calls
    /\ UNCHANGED << processed_calls, driver_instance,
                    connection_issue_reported, new_calls,
                    submitted, notified, ledger_adds, prev_ids,
                    consec_ids, lost_alerts, expiry_episode, restored_alerts,
                    issue_at_recovery, recovered_by >>
    /\ UNCHANGED auth_lost
    /\ MonUnchanged

Init ==
    /\ processed_calls = {} /\ driver_instance = "none"
    /\ connection_issue_reported = FALSE
    /\ pc = "loop" /\ consecutive_errors = 0 /\ page = <<>>
    /\ calls = <<>> /\ new_calls = <<>> /\ cur = NoCall
    /\ submitted = [id \in AllIds |-> 0]
    /\ notified = [id \in AllIds |-> 0]
    /\ ledger_adds = [id \in AllIds |-> 0]
    /\ prev_ids = {} /\ dropped_ids = {} /\ consec_ids = {}
    /\ lost_alerts = 0 /\ expiry_episode = FALSE /\ restored_alerts = 0
    /\ issue_at_recovery = FALSE /\ recovered_by = "none"
    /\ auth_lost = <<>> /\ is_monitoring = TRUE
    /\ ExtIdle /\ WaitIdle /\ DlIdle /\ PoolIdle /\ CeilIdle /\ IdIdle /\ GetIdle

Next ==
    \/ LoopDriverLive
    \/ InitDriverFails
    \/ InitDriverSucceeds
    \/ FetchRaises
    \/ FetchOk
    \/ FetchExpiredLoginFails
    \/ FetchExpiredLoginOk
    \/ ExtractRaises
    \/ Extract
    \/ DispatchAdd
    \/ DispatchNotify
    \/ DispatchSubmit
    \/ CycleEnd

Spec == Init /\ [][Next]_vars

\* the monitoring loop is between two dispatch loops
Quiescent == pc \in {"loop", "fetch", "extract", "end"}

\* C1: over any sequence of cycles and snapshots, a snapshot with several
\* rows of one id included, every id enters the ledger at most once and
\* process_single_call is submitted exactly once for each dispatched id.
C1_OneSubmitPerId ==
    \A id \in AllIds :
        /\ ledger_adds[id] <= 1
        /\ submitted[id] <= 1
        /\ (Quiescent /\ id \in processed_calls) => submitted[id] = 1

\* C2: an id that appears on two or more consecutive snapshots has the
\* Call Processor invoked exactly once.
C2_OnceAcrossSnapshots ==
    Quiescent =>
        \A id \in consec_ids \cap processed_calls : submitted[id] = 1

\* C3: within a cycle the id of a record is added to the ledger strictly
\* before the record is submitted to the pool: no Call Processor has been
\* submitted for an id that is not in the ledger, and a record that is being
\* notified or submitted is already in the ledger.
C3_LedgerBeforeSubmit ==
    /\ \A id \in AllIds : submitted[id] > 0 => id \in processed_calls
    /\ pc \in {"notify", "submit"} => cur.id \in processed_calls
    /\ \A id \in AllIds : submitted[id] <= notified[id]

\* a record is in the ledger and not yet submitted while another has
\* already been submitted
C3_Witness ==
    /\ pc = "submit"
    /\ cur.id \in processed_calls
    /\ submitted[cur.id] = 0
    /\ \E id \in AllIds : submitted[id] > 0

\* C9: from the first observation of the login page until a login
\* succeeds, the 'connection lost' alert fires exactly once.
C9_OneLostAlertPerExpiry == expiry_episode => lost_alerts = 1

\* C10: a recovery that starts with the alert-suppression flag set emits
\* exactly one 'connection restored' event, on each recovery path.
C10_OneRestoredPerRecovery ==
    (recovered_by # "none" /\ issue_at_recovery) => restored_alerts = 1

\* C19: the Dedup Ledger only grows: no step of the monitoring loop (an
\* extraction error, a transport error, a session expiry, a failed login, the
\* teardown at the error ceiling and the restart of the driver included)
\* removes an id that was in the ledger.
C19_LedgerOnlyGrows == [][processed_calls \subseteq processed_calls']_vars

\* the driver was torn down while the ledger held every id
C19_Witness ==
    /\ processed_calls = AllIds
    /\ driver_instance = "none"
    /\ connection_issue_reported

\* C17: a row without a usable recording token is dropped entirely: while a
\* snapshot shows an id on such rows only, the extractor does not return the
\* id and no step adds it to the ledger, so a later snapshot in which the
\* token is available still surfaces the call.
C17_TokenlessRowDropped ==
    [][\A id \in TokenlessOnly(page) :
          /\ id \notin Ids(calls')
          /\ id \in processed_calls' => id \in processed_calls]_vars

\* an id was shown without a token, was dropped, and is dispatched by this
\* cycle from a later snapshot
C17_Witness ==
    \E id \in dropped_ids : id \in processed_calls /\ submitted[id] = 1

\* C22: when the consecutive-error counter reaches the ceiling the session
\* is torn down before the next cycle: the counter is never at or above the
\* ceiling while the session is live; and a session becomes live again only
\* through the initialise-and-login step at the top of the loop, the path
\* of the initial startup, which leaves the counter at 0.
C22_CeilingTearsDown ==
    /\ [](consecutive_errors >= MaxErrors => driver_instance = "none")
    /\ [][(driver_instance = "none" /\ driver_instance' = "live") =>
            /\ pc = "loop" /\ pc' = "fetch"
            /\ consecutive_errors' = 0
            /\ recovered_by' = "reinit"]_vars

\* a session that had dispatched calls was torn down at the ceiling and has
\* been initialised again
C22_Witness ==
    /\ pc = "fetch" /\ recovered_by = "reinit" /\ driver_instance = "live"
    /\ processed_calls # {}
    /\ consecutive_errors = 0

\* C23: a cycle that fetched the dashboard and ran extraction without error
\* ends with the flag clear and the counter at 0, and a 'connection
\* restored' event was sent in that cycle exactly when the flag was set when
\* extraction finished (recovered_by is "clean" exactly then).
C23_RestoredIffFlagAtExtraction ==
    [][pc = "end" =>
         /\ consecutive_errors' = 0 /\ ~connection_issue_reported'
         /\ (restored_alerts >= 1 <=> recovered_by = "clean")]_vars

\* C24: an authentication that fails after all its in-place attempts has
\* sent exactly one 'connection lost' alert, whether the attempts failed by
\* a raised error or by remaining on the login page.
C24_OneAlertPerExhaustedLogin == auth_lost # <<>> => auth_lost[1] = 1

\* C25: while the session is absent and initialisation keeps failing, the
\* number of 'connection lost' alerts does not grow with the number of
\* failed iterations: an iteration that fails when the outage has already
\* been reported (the flag is set, an earlier iteration failed) sends none.
C25_NoAlertPerFailedIteration ==
    [][(/\ pc = "loop" /\ driver_instance = "none"
        /\ connection_issue_reported /\ consecutive_errors >= 1
        /\ pc' = "loop" /\ consecutive_errors' = consecutive_errors + 1
        /\ auth_lost' # <<>>)
       => auth_lost'[1] = 0]_vars

\* The monitoring thread is never stopped while is_monitoring is set: an
\* iteration that can take a step takes one (main.py:654).
SpecLive == Spec /\ WF_vars(Next)

\* a step in which authentication, the dashboard fetch or the reading of
\* the session fails
OutageStep ==
    InitDriverFails \/ FetchRaises \/ FetchExpiredLoginFails \/ ExtractRaises

\* rows with both numbers and a valid token that either method can read
ValidRows ==
    { r \in MonRows : r.did # "" /\ r.cli # "" /\ ~Tokenless(r) }

\* every fetched snapshot shows the row
Stays(r) == pc = "extract" => \E i \in 1..Len(page) : page[i] = r

\* C31 (liveness half): a valid row that stays on the dashboard is
\* dispatched at some time once authentication and fetches succeed.
C31_EventuallyDispatched ==
    \A r \in ValidRows :
        (<>[]Stays(r) /\ <>[][~OutageStep]_vars)
            => <>(submitted[CallId(r.termination, r.did, r.cli)] >= 1)

\* no snapshot shows two rows of one id
NoDupPage ==
    \A i, j \in 1..Len(page) :
        CallId(page[i].termination, page[i].did, page[i].cli)
            = CallId(page[j].termination, page[j].did, page[j].cli) => i = j

\* C31 (without the duplicate rows of C1): when no snapshot shows two rows
\* of one id, the row that stays is dispatched exactly once.
C31_OnceWithoutDuplicates ==
    \A r \in ValidRows :
        ([]NoDupPage /\ <>[]Stays(r) /\ <>[][~OutageStep]_vars)
            => <>[](submitted[CallId(r.termination, r.did, r.cli)] = 1)

\* C31: no call is lost to an outage: a valid row that stays on the
\* dashboard is dispatched, exactly once, once authentication and fetches
\* succeed from some point on.
C31_DispatchedExactlyOnce ==
    \A r \in ValidRows :
        (<>[]Stays(r) /\ <>[][~OutageStep]_vars)
            => <>[](submitted[CallId(r.termination, r.did, r.cli)] = 1)

-----------------------------------------------------------------------------
(***************************************************************************)
(* SpecId: the id derived for two rows (main.py:410, 511).  The three      *)
(* fields are the stripped texts of the first three cells of a row; the    *)
(* code puts no restriction on their characters.                           *)
(***************************************************************************)
FieldTexts == {"A1", "A1_7", "7", "7_9", "9"}

Triples == FieldTexts \X FieldTexts \X FieldTexts

IdOf(t) == CallId(t[1], t[2], t[3])

IdUnchanged ==
    UNCHANGED << processed_calls, page, monvars, extvars, waitvars, dlvars,
                 poolvars, ceilvars, getvars >>

DeriveFirst ==
    /\ ipc = "row1"
    /\ id1' = IdOf(triple1)
    /\ ipc' = "row2"
    /\ UNCHANGED << triple1, triple2, id2 >>
    /\ IdUnchanged

DeriveSecond ==
    /\ ipc = "row2"
    /\ id2' = IdOf(triple2)
    /\ ipc' = "done"
    /\ UNCHANGED << triple1, triple2, id1 >>
    /\ IdUnchanged

IdInit ==
    /\ ipc = "row1"
    /\ triple1 \in Triples /\ triple2 \in Triples
    /\ id1 = "" /\ id2 = ""
    /\ processed_calls = {} /\ page = <<>>
    /\ MonIdle /\ ExtIdle /\ WaitIdle /\ DlIdle /\ PoolIdle /\ CeilIdle
    /\ GetIdle

IdNext ==
    \/ DeriveFirst
    \/ DeriveSecond

SpecId == IdInit /\ [][IdNext]_vars

\* C18: the id is an injective function of (termination, destination,
\* caller id): two rows get the same id exactly when their triples are
\* equal, whatever characters the fields contain.
C18_IdInjective == ipc = "done" => (id1 = id2 <=> triple1 = triple2)

-----------------------------------------------------------------------------
(***************************************************************************)
(* SpecPool: the steady-state cycle of the Monitoring Loop on a healthy    *)
(* session (main.py:697-725) together with the Call Processors it has      *)
(* submitted: process_single_call (main.py:606-642) with                   *)
(* send_to_telegram_sync (messaging.py:274-318), notify_admins_error       *)
(* (main.py:131-137) and broadcast_admins_sync (messaging.py:136-143).     *)
(* The loop and every worker are threads of one process; they share the    *)
(* Telegram client and its lock _client_lock (messaging.py:26-27), held    *)
(* by "loop", by "worker" (the one worker whose position is "sending" or   *)
(* "alerting") or "free".  One executor serves a batch; with at most a     *)
(* few records per batch every submitted task gets its own thread          *)
(* (max_workers = 500), so a queued task may start at any time.            *)
(* A task is the call it was submitted with, the number of its batch, its  *)
(* position, what download_audio_via_api returned ("none" before the       *)
(* call, "file" or "None"), whether the downloaded file is on disk, what   *)
(* send_to_telegram_sync returned, the title of the alert to send, the     *)
(* alert sent (<<>> or <<title, call id named>>) and the value returned.   *)
(***************************************************************************)
\* snapshots of the dashboard: no row, one row, two different rows, or
\* the same row twice
PoolPages ==
    LET a == MkRow(TRUE, 5, "A1", Did1, Cli1, "btn", PlayCallCfg)
        b == MkRow(TRUE, 5, "B2", Did1, Cli1, "btn", PlayCallCfg)
    IN  { <<>>, <<a>>, <<b>>, <<a, b>>, <<a, a>> }

NewTask(call, b) ==
    [call |-> call, batch |-> b, wpc |-> "queued", audio_file |-> "none",
     stored |-> FALSE, success |-> "none", title |-> "", alert |-> <<>>,
     result |-> "none"]

\* what download_audio_via_api returns: a file name, or None when the
\* recording is unavailable, has another content type or the transfer raised
DownloadResults == {"file", "None"}

\* client.send_file returns a message, returns nothing, or raises
SendOutcomes == {"sent", "nothing", "raises"}

\* main.py:613  if call.get('uuid') and call.get('did')
HasUuidAndDid(call) == call.uuid # <<>> /\ call.did # ""

\* messaging.py:315  return bool(sent)
DeliveryVerdict(out) == IF out = "sent" THEN "True" ELSE "False"

\* main.py:622-626  if audio_file: ... if success: return True
ReturnsTrueMut(audio_file, success) == audio_file = "file"
ReturnsTrue(audio_file, success) == audio_file = "file" /\ success = "True"

\* the failing branches of process_single_call that call
\* notify_admins_error (main.py:627-630, 632-635, 638-641); a record without
\* uuid or did falls through to `return False` (main.py:636) silently
AlertDueMut(failure) == failure \in {"download", "error"}
AlertDue(failure) == failure \in {"download", "send", "error"}

FailureTitle(failure) ==
    IF failure = "download" THEN "Download failed"
    ELSE IF failure = "send" THEN "Telegram send failed"
    ELSE "Call processing error"

\* the task after a failing branch
AfterFailure(t, failure) ==
    IF AlertDue(failure)
    THEN [t EXCEPT !.wpc = "alert", !.title = FailureTitle(failure)]
    ELSE [t EXCEPT !.wpc = "done", !.result = "False"]

monrest == << consecutive_errors, driver_instance,
              connection_issue_reported, submitted, notified, ledger_adds,
              prev_ids, dropped_ids, consec_ids, lost_alerts,
              expiry_episode, restored_alerts, issue_at_recovery,
              recovered_by, auth_lost, is_monitoring >>

PoolUnchanged ==
    UNCHANGED << monrest, extvars, waitvars, dlvars, ceilvars, idvars, getvars >>

looplocals == << processed_calls, page, pc, calls, new_calls, cur, batch >>

\* main.py:697-711 on a healthy session: the snapshot, get_active_calls,
\* new_calls and, when there are any, a fresh executor
PoolExtract ==
    /\ pc = "loop" /\ is_monitoring
    /\ \E p \in PoolPages :
        LET cs == get_active_calls(p, processed_calls)
            nc == NewCalls(cs, processed_calls)
        IN  /\ page' = p
            /\ calls' = cs
            /\ new_calls' = nc
            /\ batch' = IF nc # <<>> THEN batch + 1 ELSE batch
            /\ pc' = IF nc # <<>> THEN "add" ELSE "end"
    /\ UNCHANGED << processed_calls, cur, tasks, client_lock >>
    /\ PoolUnchanged

\* main.py:716-717
PoolAdd ==
    /\ pc = "add"
    /\ cur' = Head(new_calls)
    /\ processed_calls' = LedgerAfterAdd(processed_calls, Head(new_calls).id)
    /\ pc' = "notify"
    /\ UNCHANGED << page, calls, new_calls, batch, tasks, client_lock >>
    /\ PoolUnchanged

\* main.py:719, messaging.py:261-265: `with _client_lock` is entered when
\* the lock is free
PoolNotifyAcquire ==
    /\ pc = "notify"
    /\ client_lock = "free"
    /\ client_lock' = "loop"
    /\ pc' = "notifying"
    /\ UNCHANGED << processed_calls, page, calls, new_calls, cur, batch,
                    tasks >>
    /\ PoolUnchanged

\* messaging.py:265-271: send_message returns or raises, the lock is
\* released and the message id or None is returned (the id is used only to
\* delete the notification after a delivery, messaging.py:302-306)
PoolNotifySend ==
    /\ pc = "notifying"
    /\ client_lock' = "free"
    /\ pc' = "submit"
    /\ UNCHANGED << processed_calls, page, calls, new_calls, cur, batch,
                    tasks >>
    /\ PoolUnchanged

\* main.py:720  executor.submit(process_single_call, ...)
PoolSubmit ==
    /\ pc = "submit"
    /\ tasks' = Append(tasks, NewTask(cur, batch))
    /\ new_calls' = Tail(new_calls)
    /\ pc' = IF Tail(new_calls) # <<>> THEN "add" ELSE "end"
    /\ UNCHANGED << processed_calls, page, calls, cur, batch, client_lock >>
    /\ PoolUnchanged

\* main.py:722-725: executor.shutdown(wait=False) returns at once, whatever
\* the state of the tasks, then the fixed sleep
PoolCycleEnd ==
    /\ pc = "end"
    /\ pc' = "loop"
    /\ page' = <<>> /\ calls' = <<>> /\ cur' = NoCall
    /\ UNCHANGED << processed_calls, new_calls, batch, tasks, client_lock >>
    /\ PoolUnchanged

\* main.py:654, 740: the loop finds the monitoring flag cleared and returns
PoolLoopExit ==
    /\ pc = "loop" /\ ~is_monitoring
    /\ pc' = "stopped"
    /\ UNCHANGED << processed_calls, page, calls, new_calls, cur, batch,
                    tasks, client_lock >>
    /\ PoolUnchanged

\* main.py:878-895: main() has raised in the main thread, whose handler
\* clears the monitoring flag and quits the browser of the handle
MainShutdown ==
    /\ is_monitoring
    /\ is_monitoring' = FALSE
    /\ driver_instance' = IF driver_instance = "live" THEN "quit"
                          ELSE driver_instance
    /\ UNCHANGED << looplocals, tasks, client_lock, consecutive_errors,
                    connection_issue_reported, submitted, notified,
                    ledger_adds, prev_ids, dropped_ids, consec_ids,
                    lost_alerts, expiry_episode, restored_alerts,
                    issue_at_recovery, recovered_by, auth_lost >>
    /\ UNCHANGED << extvars, waitvars, dlvars, ceilvars, idvars, getvars >>

WorkerUnchanged == UNCHANGED looplocals /\ PoolUnchanged

\* main.py:608-613, 636: a thread of the pool takes the task
WorkerStart(i) ==
    /\ tasks[i].wpc = "queued"
    /\ tasks' = [tasks EXCEPT ![i] =
                    IF HasUuidAndDid(@.call)
                    THEN [@ EXCEPT !.wpc = "download"]
                    ELSE AfterFailure(@, "incomplete")]
    /\ UNCHANGED client_lock
    /\ WorkerUnchanged

\* main.py:614-622, 631-635: download_audio_via_api returns
WorkerDownload(i) ==
    /\ tasks[i].wpc = "download"
    /\ \E r \in DownloadResults :
        tasks' = [tasks EXCEPT ![i] =
                    IF r = "file"
                    THEN [@ EXCEPT !.audio_file = r, !.stored = TRUE,
                                   !.wpc = "deliver"]
                    ELSE AfterFailure([@ EXCEPT !.audio_file = r],
                                      "download")]
    /\ UNCHANGED client_lock
    /\ WorkerUnchanged

\* main.py:637-642: a statement of the try block of process_single_call
\* raises, before or after the download
WorkerRaises(i) ==
    /\ tasks[i].wpc \in {"download", "deliver"}
    /\ tasks' = [tasks EXCEPT ![i] = AfterFailure(@, "error")]
    /\ UNCHANGED client_lock
    /\ WorkerUnchanged

\* messaging.py:275-290, 316-318: send_to_telegram_sync raises before it
\* requests the lock (the caption, the client); it returns False
WorkerPrepareRaises(i) ==
    /\ tasks[i].wpc = "deliver"
    /\ tasks' = [tasks EXCEPT ![i] =
                    AfterFailure([@ EXCEPT !.success = "False"], "send")]
    /\ UNCHANGED client_lock
    /\ WorkerUnchanged

\* messaging.py:292  with _client_lock
WorkerSendAcquire(i) ==
    /\ tasks[i].wpc = "deliver"
    /\ client_lock = "free"
    /\ client_lock' = "worker"
    /\ tasks' = [tasks EXCEPT ![i].wpc = "sending"]
    /\ WorkerUnchanged

\* messaging.py:293-318: send_file ends and the lock is released; the
\* files are removed (messaging.py:308-313) unless send_file raised, and
\* bool(sent) or False is returned to main.py:623-630
WorkerSendFile(i) ==
    /\ tasks[i].wpc = "sending"
    /\ client_lock' = "free"
    /\ \E out \in SendOutcomes :
        LET verdict == IF out = "raises" THEN "False"
                       ELSE DeliveryVerdict(out)
            t == [tasks[i] EXCEPT
                    !.stored = IF out = "raises" THEN @ ELSE FALSE,
                    !.success = verdict]
        IN  tasks' = [tasks EXCEPT ![i] =
                        IF ReturnsTrue(t.audio_file, verdict)
                        THEN [t EXCEPT !.wpc = "done", !.result = "True"]
                        ELSE AfterFailure(t, "send")]
    /\ WorkerUnchanged

\* main.py:131-143, messaging.py:136-139: notify_admins_error builds the
\* message and broadcast_admins_sync requests the lock
WorkerAlertAcquire(i) ==
    /\ tasks[i].wpc = "alert"
    /\ client_lock = "free"
    /\ client_lock' = "worker"
    /\ tasks' = [tasks EXCEPT ![i].wpc = "alerting"]
    /\ WorkerUnchanged

\* messaging.py:139-143, main.py:636, 642: the message is handed to the
\* client for every admin, the lock is released, False is returned
WorkerAlertSend(i) ==
    /\ tasks[i].wpc = "alerting"
    /\ client_lock' = "free"
    /\ LET t == tasks[i]
       IN  tasks' = [tasks EXCEPT ![i] =
                       [t EXCEPT !.alert = << t.title, t.call.id >>,
                                 !.wpc = "done", !.result = "False"]]
    /\ WorkerUnchanged

PoolInit ==
    /\ processed_calls = {} /\ page = <<>>
    /\ pc = "loop" /\ calls = <<>> /\ new_calls = <<>> /\ cur = NoCall
    /\ consecutive_errors = 0 /\ driver_instance = "live"
    /\ connection_issue_reported = FALSE
    /\ submitted = <<>> /\ notified = <<>> /\ ledger_adds = <<>>
    /\ prev_ids = {} /\ dropped_ids = {} /\ consec_ids = {}
    /\ lost_alerts = 0 /\ expiry_episode = FALSE /\ restored_alerts = 0
    /\ issue_at_recovery = FALSE /\ recovered_by = "none"
    /\ auth_lost = <<>> /\ is_monitoring = TRUE
    /\ tasks = <<>> /\ client_lock = "free" /\ batch = 0
    /\ ExtIdle /\ WaitIdle /\ DlIdle /\ CeilIdle /\ IdIdle /\ GetIdle

PoolNext ==
    \/ PoolExtract
    \/ PoolAdd
    \/ PoolNotifyAcquire
    \/ PoolNotifySend
    \/ PoolSubmit
    \/ PoolCycleEnd
    \/ PoolLoopExit
    \/ MainShutdown
    \/ \E i \in 1..Len(tasks) : WorkerStart(i)
    \/ \E i \in 1..Len(tasks) : WorkerDownload(i)
    \/ \E i \in 1..Len(tasks) : WorkerRaises(i)
    \/ \E i \in 1..Len(tasks) : WorkerPrepareRaises(i)
    \/ \E i \in 1..Len(tasks) : WorkerSendAcquire(i)
    \/ \E i \in 1..Len(tasks) : WorkerSendFile(i)
    \/ \E i \in 1..Len(tasks) : WorkerAlertAcquire(i)
    \/ \E i \in 1..Len(tasks) : WorkerAlertSend(i)

SpecPool == PoolInit /\ [][PoolNext]_vars

\* C11: process_single_call returns True exactly when the acquisition
\* returned an audio file and the delivery then reported success; in every
\* other outcome it returns False.
C11_TrueIffAcquiredAndDelivered ==
    \A i \in 1..Len(tasks) :
        tasks[i].wpc = "done" =>
            /\ tasks[i].result \in {"True", "False"}
            /\ tasks[i].result = "True" <=>
                   (tasks[i].audio_file = "file" /\ tasks[i].success = "True")

\* one call returned True, another returned False although its audio file
\* had been acquired
C11_Witness ==
    \E i, j \in 1..Len(tasks) :
        /\ tasks[i].wpc = "done" /\ tasks[i].result = "True"
        /\ tasks[j].wpc = "done" /\ tasks[j].result = "False"
        /\ tasks[j].audio_file = "file" /\ tasks[j].success = "False"

\* C12: for a record with a validated token, a failing Call Processor
\* invocation (no audio, a failed delivery, or an exception) has emitted an
\* operator alert that names the call id, has returned False (no exception
\* escaped), keeps its id in the ledger and is not dispatched again by a
\* later cycle.
C12_FailureAlertedNotRequeued ==
    \A i \in 1..Len(tasks) :
        ( /\ UuidAccepted(tasks[i].call.uuid)
          /\ tasks[i].wpc = "done"
          /\ tasks[i].result # "True" ) =>
            /\ tasks[i].result = "False"
            /\ tasks[i].alert # <<>>
            /\ tasks[i].alert[1] # ""
            /\ tasks[i].alert[2] = tasks[i].call.id
            /\ tasks[i].call.id \in processed_calls
            /\ \A j \in 1..Len(tasks) :
                   tasks[j].call.id = tasks[i].call.id =>
                       tasks[j].batch = tasks[i].batch

\* a delivery failed and was alerted, and a later snapshot that shows the
\* id again surfaces nothing
C12_Witness ==
    /\ \E i \in 1..Len(tasks) :
          /\ tasks[i].wpc = "done" /\ tasks[i].result = "False"
          /\ tasks[i].alert = << "Telegram send failed", tasks[i].call.id >>
          /\ tasks[i].batch < batch
          /\ \E k \in 1..Len(page) :
                 CallId(page[k].termination, page[k].did, page[k].cli)
                     = tasks[i].call.id
    /\ pc = "end" /\ calls = <<>>

\* C13: the detection loop never waits for dispatched work: it is never at
\* a statement that cannot proceed because of a Call Processor.
C13_LoopNeverWaitsForWork == ~(pc = "notify" /\ client_lock = "worker")

\* C15: the Monitoring Loop never waits for a lock held by a worker that is
\* delivering audio.
C15_NoWaitOnDeliveringWorker ==
    ~(pc = "notify" /\ \E i \in 1..Len(tasks) : tasks[i].wpc = "sending")

\* C16: once send_to_telegram_sync has returned for a call, with True or
\* with False, the downloaded audio file of the call is no longer stored.
C16_AudioRemovedAfterDelivery ==
    \A i \in 1..Len(tasks) :
        tasks[i].success # "none" => ~tasks[i].stored

\* the monitoring state of claim C33
monitoring_state ==
    << processed_calls, connection_issue_reported, driver_instance,
       is_monitoring >>

\* a step of the Monitoring Loop thread
LoopStep ==
    \/ PoolExtract \/ PoolAdd \/ PoolNotifyAcquire \/ PoolNotifySend
    \/ PoolSubmit \/ PoolCycleEnd \/ PoolLoopExit

\* a step of a Call Processor: process_single_call and what it calls
WorkerStep ==
    \E i \in 1..Len(tasks) :
        \/ WorkerStart(i) \/ WorkerDownload(i) \/ WorkerRaises(i)
        \/ WorkerPrepareRaises(i) \/ WorkerSendAcquire(i)
        \/ WorkerSendFile(i) \/ WorkerAlertAcquire(i) \/ WorkerAlertSend(i)

\* C33 (first half): no step of a Call Processor changes the ledger, the
\* alert-suppression flag, the driver handle or the monitoring flag.
C33_WorkersLeaveMonitoringState ==
    [][WorkerStep => UNCHANGED monitoring_state]_vars

\* C33: per-call work leaves the monitoring state unchanged, and while
\* monitoring runs only the Monitoring Loop thread writes the ledger, the
\* alert-suppression flag, the driver and the monitoring flag.
C33_OnlyLoopWritesMonitoringState ==
    [][(is_monitoring /\ monitoring_state' # monitoring_state)
          => LoopStep]_vars

-----------------------------------------------------------------------------
(***************************************************************************)
(* SpecCeiling: the executors of successive cycles, counted.  Every cycle  *)
(* with new calls creates its own ThreadPoolExecutor(max_workers=500)      *)
(* (main.py:711), submits one task per new call (main.py:716-720) and      *)
(* leaves the executor to drain (main.py:722).  An executor runs at most   *)
(* max_workers of its tasks at a time and keeps the others queued.  A      *)
(* pool is the number of its queued tasks and the number of its tasks      *)
(* that are executing process_single_call.  The tasks of a pool start and  *)
(* end one at a time or, to keep the state space small, several in one     *)
(* step.                                                                   *)
(***************************************************************************)
max_workers == 500

\* new calls found by one cycle
BatchSizes == {1, max_workers, max_workers + 1}

Min(a, b) == IF a <= b THEN a ELSE b

\* the threads of a pool that are free to take a queued task
FreeThreads(pool) == max_workers - pool.running

RECURSIVE ExecutingFrom(_, _)
ExecutingFrom(ps, i) ==
    IF i > Len(ps) THEN 0 ELSE ps[i].running + ExecutingFrom(ps, i + 1)

\* invocations of process_single_call executing now, over all pools
Executing(ps) == ExecutingFrom(ps, 1)

CeilUnchanged ==
    UNCHANGED << processed_calls, page, monvars, extvars, waitvars, dlvars,
                 poolvars, idvars, getvars >>

\* main.py:709-722: a cycle finds n new calls and hands them to a fresh pool
CeilSubmitBatch ==
    /\ Len(pools) < MaxPools
    /\ \E n \in BatchSizes :
        pools' = Append(pools, [queued |-> n, running |-> 0])
    /\ UNCHANGED partial
    /\ CeilUnchanged

\* threads of pool p take queued tasks: one, or as many as are free
CeilStart(p) ==
    /\ pools[p].queued > 0
    /\ FreeThreads(pools[p]) > 0
    /\ \E k \in {1, Min(pools[p].queued, FreeThreads(pools[p]))} :
        /\ partial' = IF k = 1 THEN partial + 1 ELSE partial
        /\ partial' <= MaxPartial
        /\ pools' = [pools EXCEPT ![p] =
                        [queued |-> @.queued - k, running |-> @.running + k]]
    /\ CeilUnchanged

\* invocations of pool p return: one, or all that are executing
CeilFinish(p) ==
    /\ pools[p].running > 0
    /\ \E k \in {1, pools[p].running} :
        /\ partial' = IF k = 1 THEN partial + 1 ELSE partial
        /\ partial' <= MaxPartial
        /\ pools' = [pools EXCEPT ![p].running = @ - k]
    /\ CeilUnchanged

CeilInit ==
    /\ pools = <<>> /\ partial = 0
    /\ processed_calls = {} /\ page = <<>>
    /\ MonIdle /\ ExtIdle /\ WaitIdle /\ DlIdle /\ PoolIdle /\ IdIdle /\ GetIdle

CeilNext ==
    \/ CeilSubmitBatch
    \/ \E p \in 1..Len(pools) : CeilStart(p)
    \/ \E p \in 1..Len(pools) : CeilFinish(p)

SpecCeiling == CeilInit /\ [][CeilNext]_vars

\* C14: the number of Call Processor invocations executing at the same
\* time, over the pools of all cycles that are still draining, never
\* exceeds the ceiling of 500.
C14_ExecutingWithinCeiling == Executing(pools) <= max_workers

-----------------------------------------------------------------------------
(***************************************************************************)
(* SpecClient: the Monitoring Loop thread and two pool workers calling     *)
(* _get_client (messaging.py:244-257) and then sending under _client_lock, *)
(* as broadcast_admins_sync, send_instant_notification_sync and            *)
(* send_to_telegram_sync do (messaging.py:138-141, 263-266, 289-306).      *)
(* _client_lock is a threading.Lock: it is not reentrant.  A client is     *)
(* named by the number of its construction.                                *)
(***************************************************************************)
Threads == {"loop", "worker1", "worker2"}

\* messaging.py:246, 250  if _telethon_client: return _telethon_client
NeedsCreateMut(c) == TRUE
NeedsCreate(c) == c = <<>>

SetPc(t, p) == gpc' = [gpc EXCEPT ![t] = p]

ClientUnchanged ==
    UNCHANGED << processed_calls, page, monvars, extvars, waitvars, dlvars,
                 tasks, batch, ceilvars, idvars >>

\* messaging.py:246-247, the test outside the lock
GetFirstCheck(t) ==
    /\ gpc[t] = "call"
    /\ IF telethon_client # <<>>
       THEN got' = [got EXCEPT ![t] = telethon_client] /\ SetPc(t, "have")
       ELSE UNCHANGED got /\ SetPc(t, "acquire")
    /\ UNCHANGED << ncalls, telethon_client, constructed, started,
                    client_lock >>
    /\ ClientUnchanged

\* messaging.py:249  with _client_lock: the thread waits until it is free
GetAcquire(t) ==
    /\ gpc[t] = "acquire"
    /\ client_lock = "free"
    /\ client_lock' = t
    /\ SetPc(t, "recheck")
    /\ UNCHANGED << got, ncalls, telethon_client, constructed, started >>
    /\ ClientUnchanged

\* messaging.py:250-251, the test under the lock
GetRecheck(t) ==
    /\ gpc[t] = "recheck"
    /\ IF NeedsCreate(telethon_client)
       THEN /\ SetPc(t, "create")
            /\ UNCHANGED << got, client_lock >>
       ELSE /\ got' = [got EXCEPT ![t] = telethon_client]
            /\ client_lock' = "free"
            /\ SetPc(t, "have")
    /\ UNCHANGED << ncalls, telethon_client, constructed, started >>
    /\ ClientUnchanged

\* messaging.py:253-257: the client is constructed and started; when
\* start() raises, the with block releases the lock and the caller's
\* handler ends the call (messaging.py:142, 268, 316)
GetCreate(t) ==
    /\ gpc[t] = "create"
    /\ constructed' = constructed + 1
    /\ client_lock' = "free"
    /\ \E start \in {"ok", "raise"} :
        IF start = "ok"
        THEN /\ telethon_client' = << constructed + 1 >>
             /\ started' = started \cup {constructed + 1}
             /\ got' = [got EXCEPT ![t] = << constructed + 1 >>]
             /\ SetPc(t, "have")
        ELSE /\ UNCHANGED << telethon_client, started, got >>
             /\ SetPc(t, "after")
    /\ UNCHANGED ncalls
    /\ ClientUnchanged

\* messaging.py:139, 265, 291  with _client_lock, in the caller
SendAcquire(t) ==
    /\ gpc[t] = "have"
    /\ client_lock = "free"
    /\ client_lock' = t
    /\ SetPc(t, "send")
    /\ UNCHANGED << got, ncalls, telethon_client, constructed, started >>
    /\ ClientUnchanged

\* the send returns or raises: the with block releases the lock
SendRelease(t) ==
    /\ gpc[t] = "send"
    /\ client_lock' = "free"
    /\ SetPc(t, "after")
    /\ UNCHANGED << got, ncalls, telethon_client, constructed, started >>
    /\ ClientUnchanged

\* the thread sends its next message
NextCall(t) ==
    /\ gpc[t] = "after"
    /\ ncalls[t] < MaxCalls
    /\ ncalls' = [ncalls EXCEPT ![t] = @ + 1]
    /\ got' = [got EXCEPT ![t] = <<>>]
    /\ SetPc(t, "call")
    /\ UNCHANGED << telethon_client, constructed, started, client_lock >>
    /\ ClientUnchanged

ClientInit ==
    /\ gpc = [t \in Threads |-> "call"]
    /\ got = [t \in Threads |-> <<>>]
    /\ ncalls = [t \in Threads |-> 1]
    /\ telethon_client = <<>> /\ constructed = 0 /\ started = {}
    /\ tasks = <<>> /\ client_lock = "free" /\ batch = 0
    /\ processed_calls = {} /\ page = <<>>
    /\ MonIdle /\ ExtIdle /\ WaitIdle /\ DlIdle /\ CeilIdle /\ IdIdle

ClientNext ==
    \E t \in Threads :
        \/ GetFirstCheck(t)
        \/ GetAcquire(t)
        \/ GetRecheck(t)
        \/ GetCreate(t)
        \/ SendAcquire(t)
        \/ SendRelease(t)
        \/ NextCall(t)

SpecClient == ClientInit /\ [][ClientNext]_vars

\* the thread has sent all its messages
Finished(t) == gpc[t] = "after" /\ ncalls[t] >= MaxCalls

\* C34: under any interleaving of the loop thread and the workers, at most
\* one client is ever created and started, every caller of _get_client gets
\* that client, no thread asks for the lock while it holds it, and as long
\* as a thread has work left some thread can take a step.
C34_OneClientNoDeadlock ==
    /\ Cardinality(started) <= 1
    /\ \A t \in Threads :
           got[t] # <<>> => (got[t] = telethon_client /\ got[t][1] \in started)
    /\ \A t \in Threads :
           gpc[t] \in {"acquire", "have"} => client_lock # t
    /\ client_lock # "free" =>
           gpc[client_lock] \in {"recheck", "create", "send"}
    /\ (\E t \in Threads : ~Finished(t)) => ENABLED ClientNext

\* two threads found no client outside the lock; one created it and the
\* other, now under the lock, finds it there
C34_Witness ==
    \E t, u \in Threads :
        /\ t # u
        /\ gpc[t] = "recheck" /\ ncalls[t] = 1
        /\ telethon_client # <<>>
        /\ got[u] = telethon_client /\ ncalls[u] = 1

====
